---- MODULE Spec2Model ----
(***************************************************************************)
(* potatocache: the `cached` decorator and `expire_group` of               *)
(* src/potatocache/caching.py over a Django-style cache backend            *)
(* (get_many / set_many with per-key atomicity).                           *)
(***************************************************************************)
EXTENDS Integers, Sequences, FiniteSets, TLC

VARIABLES
    store,      \* the backend: a partial map  key -> Python value
    uuid,       \* number of uuid4 values drawn so far
    pc,         \* per caller: "idle" or "set_many" (a multi-set in flight)
    pending,    \* per caller: the entries of its set_many not yet applied
    cur,        \* per caller: the call in flight
    last,       \* observer: the call completed latest since the last eviction
    dead,       \* observer: keys whose stored envelope an expire_group outdated
    raced       \* observer: per group, the marker an expire_group wrote under
                \* a wrapper call in flight for that group

vars == <<store, uuid, pc, pending, cur, last, dead, raced>>

----------------------------------------------------------------------------
(* Bounds *)

MaxMarkers == 2     \* uuid4 values that may be drawn in one behaviour
MaxValue == 1       \* the decorated functions return None or 1..MaxValue
MaxArg == 2         \* comment ids passed to comment_details

\* The concurrent callers
Procs == {"p1", "p2"}

----------------------------------------------------------------------------
(* Python values *)

None == [type |-> "NoneType"]
PyInt(n) == [type |-> "int", v |-> n]
PyStr(n) == [type |-> "str", hex |-> n]
PyDict(d) == [type |-> "dict", items |-> d]
Raised(name) == [type |-> "exception", name |-> name]

\* bool(v)
Truthy(v) ==
    CASE v.type = "NoneType" -> FALSE
      [] v.type = "int" -> v.v # 0
      [] v.type = "str" -> TRUE
      [] v.type = "dict" -> DOMAIN v.items # {}
      [] OTHER -> TRUE

\* d.get(k, None) on a Python dict
DictGet(d, k) == IF k \in DOMAIN d.items THEN d.items[k] ELSE None

\* The key Django stores Python's None under: make_key renders it as text.
NoneKey == "None"

----------------------------------------------------------------------------
(* The decorated functions: the keyword arguments each passes to `cached` *)

Decorated ==
    [ author_details  |-> [key |-> "author1", groups |-> <<"author1_data">>],
      author2_details |-> [key |-> "author2", groups |-> <<"author2_data">>],
      post_details    |-> [key |-> "post1",
                           groups |-> <<"author1_data", "author2_data", "author1_data">>],
      comment_details |-> [arg_key |-> "comment:%s", groups |-> <<"author1_data">>],
      cached_post     |-> [key |-> "post:1"],
      cached_point    |-> [key |-> "point1", groups |-> <<>>],
      both_keys       |-> [key |-> "both1", arg_key |-> "both:%s", groups |-> <<>>],
      no_key          |-> [groups |-> <<>>] ]

\* cached(key=None, arg_key=None, groups=None, debug=False): the defaults
KeyOf(f) == IF "key" \in DOMAIN Decorated[f] THEN Decorated[f].key ELSE NoneKey
ArgKeyOf(f) == IF "arg_key" \in DOMAIN Decorated[f] THEN Decorated[f].arg_key ELSE NoneKey
HasGroups(f) == "groups" \in DOMAIN Decorated[f]
GroupsOf(f) == IF HasGroups(f) THEN Decorated[f].groups ELSE <<>>

\* bool(s) of a str-or-None argument
Given(s) == s # NoneKey /\ s # ""

\* The positional arguments each function is called with
ArgsOf(f) == IF KeyOf(f) = NoneKey /\ Given(ArgKeyOf(f)) THEN {<<n>> : n \in 1..MaxArg} ELSE {<<1>>}

\* arg_key % a, for a template holding one %s
Format(t, a) ==
    LET i == CHOOSE i \in 1..(Len(t) - 1) : SubSeq(t, i, i + 1) = "%s"
    IN  SubSeq(t, 1, i - 1) \o ToString(a[1]) \o SubSeq(t, i + 2, Len(t))

Range(s) == {s[i] : i \in DOMAIN s}

\* the assert passes as soon as one of key and arg_key is given
AssertOk_EitherGiven(f) == Given(KeyOf(f)) \/ Given(ArgKeyOf(f))

\* line 21: assert bool(key) != bool(arg_key)
AssertOk(f) == Given(KeyOf(f)) # Given(ArgKeyOf(f))

\* The decorated functions whose calls get past lines 21-23 to the backend
Funcs == {f \in DOMAIN Decorated : AssertOk(f) /\ HasGroups(f)}

GroupNames == UNION {Range(GroupsOf(f)) : f \in Funcs}

\* What the decorated function may return
Results == {None} \cup {PyInt(n) : n \in 1..MaxValue}

----------------------------------------------------------------------------
(* The backend *)

\* cache.get_many(keys): the keys that are present, each with its value
get_many(keys) == [k \in (Range(keys) \cap DOMAIN store) |-> store[k]]

\* cache.set(k, v): one entry of a set_many applied to the backend
set(s, k, v) == [x \in DOMAIN s \cup {k} |-> IF x = k THEN v ELSE s[x]]

\* a mapping without one key
Without(m, k) == [x \in DOMAIN m \ {k} |-> m[x]]

\* line 8
VERY_LONG_TIME == 60*60*24*30*365

\* set_many called without a timeout: the backend applies the TIMEOUT of its
\* settings, 300 seconds when the settings give none
DEFAULT_TIMEOUT == 300

\* uuid.uuid4().hex, the n-th value drawn
_make_marker_value(n) == PyStr(n)

----------------------------------------------------------------------------
(* cached.wrapper, line by line *)

\* line 22: keys = [arg_key % a] if key is None else [key]
OwnKey(f, a) == IF KeyOf(f) = NoneKey THEN Format(ArgKeyOf(f), a) ELSE KeyOf(f)

\* line 23: keys.extend(groups)
Keys(f, a) == <<OwnKey(f, a)>> \o GroupsOf(f)

\* line 28: cache_value = multi_result.pop(key, None)
PopKey(f, multi_result) ==
    IF KeyOf(f) \in DOMAIN multi_result THEN multi_result[KeyOf(f)] ELSE None

\* what is left of multi_result after the pop
Popped(f, multi_result) == Without(multi_result, KeyOf(f))

\* line 30: the entries of multi_result that need a new marker
Falsy(rest) == {g \in DOMAIN rest : ~Truthy(rest[g])}

\* a marker is drawn for every group read, whether it had one or not
MarkerValues_AlwaysMint(rest, n) ==
    [g \in DOMAIN rest |-> _make_marker_value(n + 1)]

\* line 30: marker_values = {g: v or _make_marker_value() for g, v in multi_result.iteritems()}
MarkerValues(rest, n) ==
    LET F == Falsy(rest)
        h == CHOOSE h \in [F -> (n + 1)..(n + Cardinality(F))] :
                 \A x, y \in F : x # y => h[x] # h[y]
    IN  [g \in DOMAIN rest |->
            IF Truthy(rest[g]) THEN rest[g] ELSE _make_marker_value(h[g])]

\* only the groups the envelope recorded are compared
ReEvaluate_RecordedOnly(cache_value, marker_values) ==
    \/ cache_value = None
    \/ cache_value.type # "dict"
    \/ "value" \notin DOMAIN cache_value.items
    \/ \E g \in DOMAIN marker_values \cap DOMAIN cache_value.items :
          marker_values[g] # cache_value.items[g]

\* re_evaluate set only when every group changed, not when any did
ReEvaluate_AllChanged(cache_value, marker_values) ==
    \/ cache_value = None
    \/ cache_value.type # "dict"
    \/ "value" \notin DOMAIN cache_value.items
    \/ \A g \in DOMAIN marker_values : marker_values[g] # DictGet(cache_value, g)

\* re_evaluate also when the cached value itself is None
ReEvaluate_NoneValue(cache_value, marker_values) ==
    \/ cache_value = None
    \/ cache_value.type # "dict"
    \/ "value" \notin DOMAIN cache_value.items
    \/ cache_value.items["value"] = None
    \/ \E g \in DOMAIN marker_values : marker_values[g] # DictGet(cache_value, g)

\* lines 33-40: re_evaluate
ReEvaluate(cache_value, marker_values) ==
    \/ cache_value = None
    \/ cache_value.type # "dict"
    \/ "value" \notin DOMAIN cache_value.items
    \/ \E g \in DOMAIN marker_values : marker_values[g] # DictGet(cache_value, g)

\* lines 46-47: cache_value = dict(marker_values); cache_value['value'] = value
Envelope(marker_values, value) == PyDict(("value" :> value) @@ marker_values)

\* line 52: marker_values[key] = cache_value
Entries(f, marker_values, cache_value) == (KeyOf(f) :> cache_value) @@ marker_values

\* The wrapper's reading of the backend for a call of f with arguments a, as one record
Fetch(f, a) ==
    LET multi_result == get_many(Keys(f, a))
        rest == Popped(f, multi_result)
        cache_value == PopKey(f, multi_result)
        marker_values == MarkerValues(rest, uuid)
    IN  [cache_value |-> cache_value,
         marker_values |-> marker_values,
         minted |-> Cardinality(Falsy(rest)),
         re_evaluate |-> ReEvaluate(cache_value, marker_values)]

----------------------------------------------------------------------------
(* Observers *)

Idle == [op |-> "idle"]

Remember(ev) == last' = ev

Forget == last' = Idle

\* the groups named by the expire_group that completed right before a call
After == IF last.op = "expire_group" THEN last.names ELSE {}

CachedEvent(f, a, computed, ret, after) ==
    [op |-> "cached", f |-> f, a |-> a, computed |-> computed, ret |-> ret,
     after |-> after]

\* a call that raised before it reached the backend
RaisedEvent(f, a, name) ==
    [op |-> "cached", f |-> f, a |-> a, computed |-> FALSE, ret |-> Raised(name),
     after |-> {}]

ExpireEvent(names) == [op |-> "expire_group", names |-> names]

IsEnvelope(v) == v.type = "dict" /\ "value" \in DOMAIN v.items

\* the keys holding an envelope that recorded, for a group of `markers`, a
\* marker other than the one `markers` holds
Outdated(s, markers) ==
    {k \in DOMAIN s : /\ IsEnvelope(s[k])
                      /\ \E g \in DOMAIN markers :
                            /\ g \in DOMAIN s[k].items
                            /\ s[k].items[g] # markers[g]}

\* a wrapper call in flight that has read the backend and written nothing yet,
\* for a function of group g
InFlightFor(g) ==
    \E q \in Procs : /\ pc[q] = "set_many"
                     /\ cur[q].op = "cached"
                     /\ g \in Range(GroupsOf(cur[q].f))
                     /\ DOMAIN pending[q] = DOMAIN cur[q].entries

----------------------------------------------------------------------------
(* Initial state: an empty cache, nobody calling *)

Init ==
    /\ store = <<>>
    /\ uuid = 0
    /\ pc = [p \in Procs |-> "idle"]
    /\ pending = [p \in Procs |-> <<>>]
    /\ cur = [p \in Procs |-> Idle]
    /\ last = Idle
    /\ dead = {}
    /\ raced = [g \in GroupNames |-> 0]

----------------------------------------------------------------------------
(* cached.wrapper: from the call to the return, or to the set_many of line 53 *)

\* the cached value is served and the group markers are touched: a set_many
\* of the markers read is issued
WrapperHit_Touch(p, f, a) ==
    LET r == Fetch(f, a)
    IN  /\ pc[p] = "idle"
        /\ AssertOk(f)
        /\ HasGroups(f)
        /\ uuid + r.minted <= MaxMarkers
        /\ ~r.re_evaluate
        /\ uuid' = uuid + r.minted
        /\ pending' = [pending EXCEPT ![p] = r.marker_values]
        /\ cur' = [cur EXCEPT ![p] =
                     [op |-> "cached", f |-> f, a |-> a,
                      ret |-> r.cache_value.items["value"], after |-> After,
                      entries |-> r.marker_values, timeout |-> VERY_LONG_TIME]]
        /\ pc' = [pc EXCEPT ![p] = "set_many"]
        /\ UNCHANGED <<store, last, dead, raced>>

\* lines 21-40 and 55-58: the cached value is served
WrapperHit(p, f, a) ==
    LET r == Fetch(f, a)
    IN  /\ pc[p] = "idle"
        /\ AssertOk(f)
        /\ HasGroups(f)
        /\ uuid + r.minted <= MaxMarkers
        /\ ~r.re_evaluate
        /\ uuid' = uuid + r.minted
        /\ Remember(CachedEvent(f, a, FALSE, r.cache_value.items["value"], After))
        /\ UNCHANGED <<store, pc, pending, cur, dead, raced>>

\* lines 21-53: func is called and returns; the set_many is issued
WrapperMiss(p, f, a) ==
    LET r == Fetch(f, a)
    IN  /\ pc[p] = "idle"
        /\ AssertOk(f)
        /\ HasGroups(f)
        /\ uuid + r.minted <= MaxMarkers
        /\ r.re_evaluate
        /\ \E value \in Results :
              LET entries == Entries(f, r.marker_values,
                                     Envelope(r.marker_values, value))
              IN  /\ pending' = [pending EXCEPT ![p] = entries]
                  /\ cur' = [cur EXCEPT ![p] =
                               [op |-> "cached", f |-> f, a |-> a, ret |-> value,
                                after |-> After, entries |-> entries,
                                timeout |-> VERY_LONG_TIME]]
        /\ pc' = [pc EXCEPT ![p] = "set_many"]
        /\ uuid' = uuid + r.minted
        /\ UNCHANGED <<store, last, dead, raced>>

\* func raises and the failure is cached: an envelope of None is stored
WrapperRaise_Cached(p, f, a) ==
    LET r == Fetch(f, a)
    IN  /\ pc[p] = "idle"
        /\ AssertOk(f)
        /\ HasGroups(f)
        /\ uuid + r.minted <= MaxMarkers
        /\ r.re_evaluate
        /\ uuid' = uuid + r.minted
        /\ store' = set(store, KeyOf(f), Envelope(r.marker_values, None))
        /\ Remember(CachedEvent(f, a, TRUE, Raised("Exception"), After))
        /\ UNCHANGED <<pc, pending, cur, dead, raced>>

\* lines 21-44: func raises; nothing is written
WrapperRaise(p, f, a) ==
    LET r == Fetch(f, a)
    IN  /\ pc[p] = "idle"
        /\ AssertOk(f)
        /\ HasGroups(f)
        /\ uuid + r.minted <= MaxMarkers
        /\ r.re_evaluate
        /\ uuid' = uuid + r.minted
        /\ Remember(CachedEvent(f, a, TRUE, Raised("Exception"), After))
        /\ UNCHANGED <<store, pc, pending, cur, dead, raced>>

\* line 21: the assert fails
WrapperAssert(p, f, a) ==
    /\ pc[p] = "idle"
    /\ ~AssertOk(f)
    /\ Remember(RaisedEvent(f, a, "AssertionError"))
    /\ UNCHANGED <<store, uuid, pc, pending, cur, dead, raced>>

\* lines 21-23: groups is None, keys.extend(groups) raises
WrapperTypeError(p, f, a) ==
    /\ pc[p] = "idle"
    /\ AssertOk(f)
    /\ ~HasGroups(f)
    /\ Remember(RaisedEvent(f, a, "TypeError"))
    /\ UNCHANGED <<store, uuid, pc, pending, cur, dead, raced>>

wrapper(p, f, a) ==
    \/ WrapperAssert(p, f, a)
    \/ WrapperTypeError(p, f, a)
    \/ WrapperHit(p, f, a)
    \/ WrapperMiss(p, f, a)
    \/ WrapperRaise(p, f, a)

----------------------------------------------------------------------------
(* expire_group: lines 63-67, up to the set_many *)

\* a marker written under every group, not only under the named ones
expire_group_every(p, names) ==
    LET h == CHOOSE h \in [GroupNames -> (uuid + 1)..(uuid + Cardinality(GroupNames))] :
                 \A x, y \in GroupNames : x # y => h[x] # h[y]
        entries == [g \in GroupNames |-> _make_marker_value(h[g])]
    IN  /\ pc[p] = "idle"
        /\ uuid + Cardinality(GroupNames) <= MaxMarkers
        /\ uuid' = uuid + Cardinality(GroupNames)
        /\ pending' = [pending EXCEPT ![p] = entries]
        /\ cur' = [cur EXCEPT ![p] =
                     [op |-> "expire_group", names |-> names, entries |-> entries,
                      timeout |-> DEFAULT_TIMEOUT]]
        /\ pc' = [pc EXCEPT ![p] = "set_many"]
        /\ UNCHANGED <<store, last, dead, raced>>

\* one marker drawn for the whole call and written under every named group
expire_group_shared(p, names) ==
    LET entries == [g \in names |-> _make_marker_value(uuid + 1)]
    IN  /\ pc[p] = "idle"
        /\ uuid + 1 <= MaxMarkers
        /\ uuid' = uuid + 1
        /\ pending' = [pending EXCEPT ![p] = entries]
        /\ cur' = [cur EXCEPT ![p] =
                     [op |-> "expire_group", names |-> names, entries |-> entries,
                      timeout |-> DEFAULT_TIMEOUT]]
        /\ pc' = [pc EXCEPT ![p] = "set_many"]
        /\ UNCHANGED <<store, last, dead, raced>>

expire_group(p, names) ==
    LET h == CHOOSE h \in [names -> (uuid + 1)..(uuid + Cardinality(names))] :
                 \A x, y \in names : x # y => h[x] # h[y]
        entries == [g \in names |-> _make_marker_value(h[g])]
    IN  /\ pc[p] = "idle"
        /\ uuid + Cardinality(names) <= MaxMarkers
        /\ uuid' = uuid + Cardinality(names)
        /\ pending' = [pending EXCEPT ![p] = entries]
        /\ cur' = [cur EXCEPT ![p] =
                     [op |-> "expire_group", names |-> names, entries |-> entries,
                      timeout |-> DEFAULT_TIMEOUT]]
        /\ pc' = [pc EXCEPT ![p] = "set_many"]
        /\ UNCHANGED <<store, last, dead, raced>>

---------------------------------------------------------------------------------------------------------------------------------------------------
(* cache.set_many: the backend applies the entries K of the set_many of p;   *)
(* the call returns when none is left                                       *)

Apply(p, K) ==
    LET rest == [x \in DOMAIN pending[p] \ K |-> pending[p][x]]
        done == DOMAIN rest = {}
        expiring == cur[p].op = "expire_group"
    IN  /\ pc[p] = "set_many"
        /\ K # {}
        /\ K \subseteq DOMAIN pending[p]
        /\ store' = [x \in DOMAIN store \cup K |->
                        IF x \in K THEN pending[p][x] ELSE store[x]]
        /\ pending' = [pending EXCEPT ![p] = rest]
        /\ pc' = [pc EXCEPT ![p] = IF done THEN "idle" ELSE "set_many"]
        /\ cur' = [cur EXCEPT ![p] = IF done THEN Idle ELSE @]
        /\ IF done
           THEN Remember(IF expiring
                         THEN ExpireEvent(cur[p].names)
                         ELSE CachedEvent(cur[p].f, cur[p].a, TRUE, cur[p].ret,
                                          cur[p].after))
           ELSE UNCHANGED last
        /\ dead' = IF expiring
                   THEN IF done THEN dead \cup Outdated(store', cur[p].entries)
                        ELSE dead
                   ELSE dead \ {k \in K : IsEnvelope(pending[p][k])}
        /\ raced' = IF expiring
                    THEN [g \in GroupNames |->
                            IF g \in K
                            THEN IF InFlightFor(g) THEN pending[p][g].hex ELSE 0
                            ELSE raced[g]]
                    ELSE raced
        /\ UNCHANGED uuid

\* per-key atomicity: one entry at a time, in any order
SetOne(p, k) == Apply(p, {k})

\* the whole set_many with no other caller between its entries
SetAll(p) == Apply(p, DOMAIN pending[p])

-----
(* The backend drops an entry (LRU eviction) *)

Evict(k) ==
    /\ k \in DOMAIN store
    /\ store' = Without(store, k)
    /\ dead' = dead \ {k}
    /\ raced' = [g \in GroupNames |-> IF g = k THEN 0 ELSE raced[g]]
    /\ Forget
    /\ UNCHANGED <<uuid, pc, pending, cur>>

-----
(* Something other than this module writes under a key of the cache *)

\* values that are no envelope: not a dict, or a dict with no 'value'
Malformed == {PyInt(0), PyDict(<<>>)}

Foreign(k, v) ==
    /\ store' = set(store, k, v)
    /\ dead' = dead \ {k}
    /\ Forget
    /\ UNCHANGED <<uuid, pc, pending, cur, raced>>

AllIdle == \A p \in Procs : pc[p] = "idle"

----------------------------------------------------------------------------
(* Specifications *)

AllKeys == {OwnKey(f, a) : f \in Funcs, a \in UNION {ArgsOf(g) : g \in Funcs}}
               \cup GroupNames \cup {NoneKey}

\* the functions cached under a literal key
KeyFuncs == {f \in Funcs : Given(KeyOf(f))}

\* one function for each way of raising before the backend is reached
Raising == {"cached_post", "no_key"}

\* the functions that belong to a group
Grouped == {f \in Funcs : GroupsOf(f) # <<>>}

GroupsIn(Fs) == UNION {Range(GroupsOf(f)) : f \in Fs}

Starts(Ps, Fs) ==
    \/ \E p \in Ps, f \in Fs : \E a \in ArgsOf(f) : wrapper(p, f, a)
    \/ \E p \in Ps, names \in SUBSET GroupsIn(Fs) \ {{}} : expire_group(p, names)

\* One caller, every function, nothing evicted
Next ==
    \/ Starts({"p1"}, Grouped \cup Raising)
    \/ SetAll("p1")

Spec == Init /\ [][Next]_vars

\* One caller of the literal-key functions, and a backend that evicts
EvictNext ==
    \/ Starts({"p1"}, (KeyFuncs \cap Grouped) \cup Raising)
    \/ SetAll("p1")
    \/ \E k \in AllKeys : Evict(k)

SpecEvict == Init /\ [][EvictNext]_vars

\* Two callers of author_details racing each other, entry by entry
RaceNext ==
    \/ Starts(Procs, {"author_details"} \cup Raising)
    \/ \E p \in Procs, k \in AllKeys : SetOne(p, k)

SpecRace == Init /\ [][RaceNext]_vars

\* One caller of two functions of disjoint groups, and a backend that evicts
PairNext ==
    \/ Starts({"p1"}, {"author_details", "author2_details"} \cup Raising)
    \/ SetAll("p1")
    \/ \E k \in AllKeys : Evict(k)

SpecPair == Init /\ [][PairNext]_vars

\* One caller of functions of no group, of one group and of several, and of
\* functions given both a key and an arg_key, neither of them, or no groups
ConfigNext ==
    \/ Starts({"p1"}, {"cached_point", "author_details", "post_details",
                       "cached_post", "both_keys", "no_key"})
    \/ SetAll("p1")

SpecConfig == Init /\ [][ConfigNext]_vars

\* One caller, and between its calls foreign writes under the keys the
\* functions are cached under
ForeignNext ==
    \/ Starts({"p1"}, {"author_details", "comment_details"} \cup Raising)
    \/ SetAll("p1")
    \/ \E f \in {"author_details", "comment_details"}, v \in Malformed :
          \E a \in ArgsOf(f) : AllIdle /\ Foreign(OwnKey(f, a), v)

SpecForeign == Init /\ [][ForeignNext]_vars

\* Two callers racing each other entry by entry, one function cached under a
\* key made from its arguments among those they call, and no expire_group
RaceArgNext ==
    \/ \E p \in Procs, f \in {"comment_details", "author_details"} \cup Raising :
          \E a \in ArgsOf(f) : wrapper(p, f, a)
    \/ \E p \in Procs, k \in AllKeys : SetOne(p, k)

SpecRaceArg == Init /\ [][RaceArgNext]_vars

----------------------------------------------------------------------------
(* What a call made now would find *)

\* the wrapper would judge the cached value of f(a) stale, missing or malformed
Stale(f, a) == Fetch(f, a).re_evaluate

\* the value a hit of f(a) would return
Served(f, a) == Fetch(f, a).cache_value.items["value"]

\* func is invoked in this step
Computes(p, f, a) == WrapperMiss(p, f, a) \/ WrapperRaise(p, f, a)

\* the latest completed call was a call of f(a) that returned a value
Returned(f, a) ==
    /\ last.op = "cached"
    /\ last.f = f
    /\ last.a = a
    /\ last.ret \in Results

----------------------------------------------------------------------------
(* C1 *)

\* C1: with one caller and no eviction, the first call of f(a) after an
\* expire_group naming one of the groups of f invokes func and stores a new
\* envelope under the key of f(a), and the call of f(a) right after that one
\* is a hit that does not invoke func.
C1_FirstCallRecomputes ==
    \A p \in Procs, f \in Funcs : \A a \in ArgsOf(f) :
        (After \cap Range(GroupsOf(f)) # {} /\ wrapper(p, f, a))
            => Computes(p, f, a)

C1_EnvelopeStored ==
    \A f \in Funcs : \A a \in ArgsOf(f) :
        (Returned(f, a) /\ last.computed /\ last.after \cap Range(GroupsOf(f)) # {})
            => /\ OwnKey(f, a) \in DOMAIN store
               /\ store[OwnKey(f, a)] = Envelope(Fetch(f, a).marker_values, last.ret)

C1_SecondCallHits ==
    \A p \in Procs, f \in Funcs : \A a \in ArgsOf(f) :
        (/\ Returned(f, a) /\ last.computed
         /\ last.after \cap Range(GroupsOf(f)) # {}
         /\ wrapper(p, f, a))
            => WrapperHit(p, f, a)

C1_RecomputeOnceThenHit ==
    /\ [][C1_FirstCallRecomputes]_vars
    /\ []C1_EnvelopeStored
    /\ [][C1_SecondCallHits]_vars

----------------------------------------------------------------------------
(* C2 *)

\* C2: after a call of f(a) has returned a value, a further call of f(a) made
\* while nothing else has touched the cache returns that same value and does
\* not invoke func.
C2_IdempotentHit ==
    [][\A p \in Procs, f \in Funcs : \A a \in ArgsOf(f) :
          (Returned(f, a) /\ wrapper(p, f, a))
              => /\ WrapperHit(p, f, a)
                 /\ last'.ret = last.ret]_vars

----------------------------------------------------------------------------
(* C3 *)

\* the stored envelope of f(a) recorded a marker for g, and no marker is
\* stored under g
MarkerMissing(f, a, g) ==
    /\ OwnKey(f, a) \in DOMAIN store
    /\ IsEnvelope(store[OwnKey(f, a)])
    /\ g \in Range(GroupsOf(f))
    /\ g \in DOMAIN store[OwnKey(f, a)].items
    /\ g \notin DOMAIN store

\* C3: a call of f(a) whose stored envelope recorded a marker for a group that
\* has no marker in the store invokes func: it is never served from the cache.
C3_MissingMarkerIsStale ==
    [][\A p \in Procs, f \in Funcs : \A a \in ArgsOf(f) :
          ((\E g \in GroupNames : MarkerMissing(f, a, g)) /\ wrapper(p, f, a))
              => Computes(p, f, a)]_vars

----------------------------------------------------------------------------
(* C4 *)

\* C4: an envelope that recorded a marker for a group named by a completed
\* expire_group is never served again by any call.
C4_OutdatedNeverServed ==
    [][\A p \in Procs, f \in Funcs : \A a \in ArgsOf(f) :
          WrapperHit(p, f, a) => OwnKey(f, a) \notin dead]_vars

----------------------------------------------------------------------------
(* C5 *)

\* C5: when expire_group wrote a marker under g while a wrapper call for a key
\* of g had read the cache and not yet written, then once every call has
\* returned and no later expire_group named g, the store holds that marker
\* under g for the next calls to read.
C5_RacedMarkerSurvives ==
    \A g \in GroupNames :
        (AllIdle /\ raced[g] # 0)
            => (g \in DOMAIN store /\ store[g] = _make_marker_value(raced[g]))

----------------------------------------------------------------------------
(* C6 *)

\* caller p's expire_group writes some of its markers in this step
ExpireWrites(p) ==
    /\ pc[p] = "set_many"
    /\ cur[p].op = "expire_group"
    /\ pending'[p] # pending[p]

\* C6: an expire_group leaves every function that has none of the named groups
\* as it was: if its cached value was fresh before a write of the expire_group
\* it is fresh after it, with the same value; and a call that finds its value
\* fresh returns that value without invoking func and writes nothing.
C6_Frame ==
    \A p \in Procs :
        ExpireWrites(p) =>
            \A f \in Funcs : \A a \in ArgsOf(f) :
                (Range(GroupsOf(f)) \cap cur[p].names = {} /\ ~Stale(f, a))
                    => /\ ~Stale(f, a)'
                       /\ Served(f, a)' = Served(f, a)

C6_StillHit ==
    (After # {} /\ last' # last) =>
        \A p \in Procs, f \in Funcs : \A a \in ArgsOf(f) :
            (/\ Range(GroupsOf(f)) \cap After = {}
             /\ ~Stale(f, a)
             /\ wrapper(p, f, a))
                => /\ WrapperHit(p, f, a)
                   /\ last'.ret = Served(f, a)
                   /\ store' = store

C6_GroupIsolation == [][C6_Frame /\ C6_StillHit]_vars

\* author2_details is served from the cache right after author1_data expired
C6_Witness ==
    /\ last.op = "cached"
    /\ last.f = "author2_details"
    /\ ~last.computed
    /\ last.after = {"author1_data"}

----------------------------------------------------------------------------
(* C7 *)

\* C7: a call of a function made right after an expire_group that named any
\* one of its groups has invoked func.
C7_AnyGroupStales ==
    last.op = "cached" /\ last.after \cap Range(GroupsOf(last.f)) # {}
        => last.computed

\* post_details is recomputing: its envelope recorded the marker of
\* author1_data that the expire_group just replaced, and nothing else changed
C7_Witness ==
    \E p \in Procs :
        /\ pc[p] = "set_many"
        /\ cur[p].op = "cached"
        /\ cur[p].f = "post_details"
        /\ cur[p].after = {"author1_data"}
        /\ "post1" \in DOMAIN store
        /\ IsEnvelope(store["post1"])
        /\ "author1_data" \in DOMAIN store["post1"].items
        /\ "author1_data" \in DOMAIN store
        /\ store["post1"].items["author1_data"] # store["author1_data"]
        /\ "author2_data" \in DOMAIN store
              => DictGet(store["post1"], "author2_data") = store["author2_data"]

----------------------------------------------------------------------------
(* C8 *)

\* C8: after a call of f(a) that invoked func has returned, with nothing
\* else running, every group of f has a marker in the store and the envelope
\* stored for f(a) records that marker.
C8_EveryGroupWritten ==
    \A f \in Funcs : \A a \in ArgsOf(f) :
        (Returned(f, a) /\ last.computed)
            => \A g \in Range(GroupsOf(f)) :
                  /\ g \in DOMAIN store
                  /\ OwnKey(f, a) \in DOMAIN store
                  /\ IsEnvelope(store[OwnKey(f, a)])
                  /\ DictGet(store[OwnKey(f, a)], g) = store[g]

----------------------------------------------------------------------------
(* C9 *)

\* C9 as stated: the store never holds an envelope whose value is None, and
\* every call that returns None has invoked func.
C9_NoneNeverCached ==
    /\ \A k \in DOMAIN store :
          IsEnvelope(store[k]) => store[k].items["value"] # None
    /\ (last.op = "cached" /\ last.ret = None) => last.computed

\* C9, amended: a None result is cached like any other. Once a call that
\* invoked func and got None has returned, the store holds an envelope whose
\* value is None under the key the wrapper writes, and the next call of a
\* literal-key function, made with nothing touched in between, is a hit that
\* returns None.
C9_NoneStored ==
    (last.op = "cached" /\ last.computed /\ last.ret = None)
        => /\ KeyOf(last.f) \in DOMAIN store
           /\ IsEnvelope(store[KeyOf(last.f)])
           /\ store[KeyOf(last.f)].items["value"] = None

C9_NoneServed ==
    (last.op = "cached" /\ last.ret = None) =>
        \A p \in Procs, f \in KeyFuncs : \A a \in ArgsOf(f) :
            (Returned(f, a) /\ wrapper(p, f, a))
                => /\ WrapperHit(p, f, a)
                   /\ last'.ret = None

C9_NoneIsCached == []C9_NoneStored /\ [][C9_NoneServed]_vars

\* a call served None from the cache
C9_Witness ==
    /\ last.op = "cached"
    /\ ~last.computed
    /\ last.ret = None

----------------------------------------------------------------------------
(* C10 *)

\* C10: a function configured with arg_key keeps its envelope under the key
\* formatted from the call's arguments: the set_many of a miss writes the
\* envelope under that key and under no other, the store holds it there once
\* the call has returned, and a second call with the same arguments is a hit.
C10_WrittenUnderDerivedKey ==
    \A p \in Procs :
        (pc[p] = "set_many" /\ cur[p].op = "cached" /\ Given(ArgKeyOf(cur[p].f)))
            => \A k \in DOMAIN cur[p].entries :
                  IsEnvelope(cur[p].entries[k])
                      <=> k = Format(ArgKeyOf(cur[p].f), cur[p].a)

C10_HeldUnderDerivedKey ==
    \A f \in Funcs : \A a \in ArgsOf(f) :
        (Given(ArgKeyOf(f)) /\ Returned(f, a) /\ last.computed)
            => /\ Format(ArgKeyOf(f), a) \in DOMAIN store
               /\ IsEnvelope(store[Format(ArgKeyOf(f), a)])
               /\ store[Format(ArgKeyOf(f), a)].items["value"] = last.ret

C10_SecondCallHits ==
    \A p \in Procs, f \in Funcs : \A a \in ArgsOf(f) :
        (Given(ArgKeyOf(f)) /\ Returned(f, a) /\ wrapper(p, f, a))
            => WrapperHit(p, f, a)

C10_TemplatedKeyIsStorageKey ==
    /\ []C10_WrittenUnderDerivedKey
    /\ []C10_HeldUnderDerivedKey
    /\ [][C10_SecondCallHits]_vars

----------------------------------------------------------------------------
(* C11 *)

\* f is configured with no group: groups omitted, or empty
NoGroups(f) == GroupsOf(f) = <<>>

\* C11: a function configured with a key and no groups is a point cache. Its
\* calls do not raise before func is reached, a call that invoked func leaves
\* the envelope of the returned value under the key, the call after it is a
\* hit, and no write of an expire_group makes a fresh value stale.
C11_CompletesWithoutError ==
    (last.op = "cached" /\ AssertOk(last.f) /\ NoGroups(last.f))
        => last.ret \in Results \cup {Raised("Exception")}

C11_EnvelopeStored ==
    (last.op = "cached" /\ AssertOk(last.f) /\ NoGroups(last.f)
        /\ last.computed /\ last.ret \in Results)
        => /\ OwnKey(last.f, last.a) \in DOMAIN store
           /\ store[OwnKey(last.f, last.a)] = Envelope(<<>>, last.ret)

C11_LaterCallHits ==
    \A p \in Procs, f \in DOMAIN Decorated : \A a \in ArgsOf(f) :
        (AssertOk(f) /\ NoGroups(f) /\ Returned(f, a) /\ wrapper(p, f, a))
            => WrapperHit(p, f, a)

C11_NeverStale ==
    \A p \in Procs :
        ExpireWrites(p) =>
            \A f \in DOMAIN Decorated : \A a \in ArgsOf(f) :
                (AssertOk(f) /\ NoGroups(f) /\ ~Stale(f, a)) => ~Stale(f, a)'

C11_PointCache ==
    /\ []C11_CompletesWithoutError
    /\ []C11_EnvelopeStored
    /\ [][C11_LaterCallHits /\ C11_NeverStale]_vars

----------------------------------------------------------------------------
(* C12 *)

\* C12: a call whose func raises returns that exception to its caller, issues
\* no set_many and leaves the store as it was; the next call of the same
\* function with the same arguments invokes func again.
C12_NothingWritten ==
    (last' # last /\ last'.op = "cached" /\ last'.computed
        /\ last'.ret.type = "exception")
        => /\ last'.ret = Raised("Exception")
           /\ store' = store
           /\ pc' = pc
           /\ pending' = pending

C12_NextCallComputes ==
    (last.op = "cached" /\ last.computed /\ last.ret.type = "exception")
        => \A p \in Procs :
              wrapper(p, last.f, last.a) => Computes(p, last.f, last.a)

C12_FailureLeavesNoTrace == [][C12_NothingWritten /\ C12_NextCallComputes]_vars

\* func raised in a call that found an outdated envelope, which is still there
C12_Witness ==
    /\ last.op = "cached"
    /\ last.ret = Raised("Exception")
    /\ last.after # {}
    /\ OwnKey(last.f, last.a) \in DOMAIN store
    /\ IsEnvelope(store[OwnKey(last.f, last.a)])

----------------------------------------------------------------------------
(* C13 *)

\* f is configured with both a key and an arg_key, or with neither
BadConfig(f) == Given(KeyOf(f)) = Given(ArgKeyOf(f))

\* C13: a call of a function configured with both a key and an arg_key, or
\* with neither, raises AssertionError without invoking func, reads and writes
\* nothing and leaves the store as it was; no set_many is ever in flight for
\* such a function.
C13_CallRaises ==
    \A p \in Procs, f \in DOMAIN Decorated : \A a \in ArgsOf(f) :
        (BadConfig(f) /\ wrapper(p, f, a))
            => /\ last' = RaisedEvent(f, a, "AssertionError")
               /\ store' = store
               /\ uuid' = uuid
               /\ pc' = pc
               /\ pending' = pending

C13_NoBackendCall ==
    /\ \A p \in Procs :
          (pc[p] = "set_many" /\ cur[p].op = "cached") => ~BadConfig(cur[p].f)
    /\ (last.op = "cached" /\ BadConfig(last.f))
          => (~last.computed /\ last.ret = Raised("AssertionError"))

C13_ConfigErrorFailsFast == [][C13_CallRaises]_vars /\ []C13_NoBackendCall

\* the call of a function given both a key and an arg_key has raised, over a
\* cache that holds entries
C13_Witness ==
    /\ last.op = "cached"
    /\ last.f = "both_keys"
    /\ last.ret = Raised("AssertionError")
    /\ DOMAIN store # {}

----------------------------------------------------------------------------
(* C14 *)

\* caller p has invoked func for f(a) and its set_many is not complete
Computing(p, f, a) ==
    /\ pc[p] = "set_many"
    /\ cur[p].op = "cached"
    /\ cur[p].f = f
    /\ cur[p].a = a

\* the envelope of the call of p in flight: its value with the markers it read
OwnEnvelope(p) ==
    Envelope([g \in DOMAIN cur[p].entries \cap GroupNames |-> cur[p].entries[g]],
             cur[p].ret)

\* C14: two calls of f(a) that both found it stale both invoke func, neither
\* waiting for the other; the set_many of each carries, under the key of f(a),
\* the envelope of its own value and markers; and when the second of them
\* returns the store holds under that key the envelope of one of the two,
\* which a call made then would serve.
C14_NoSingleFlight ==
    \A p, q \in Procs, f \in Funcs : \A a \in ArgsOf(f) :
        (p # q /\ Computing(q, f, a) /\ Stale(f, a) /\ wrapper(p, f, a))
            => Computes(p, f, a)

C14_EachWritesItsEnvelope ==
    \A f \in Funcs : \A a \in ArgsOf(f) :
        (\A p \in Procs : Computing(p, f, a))
            => \A p \in Procs :
                  /\ OwnKey(f, a) \in DOMAIN cur[p].entries
                  /\ cur[p].entries[OwnKey(f, a)] = OwnEnvelope(p)

C14_OneEnvelopeThenHit ==
    \A p \in Procs, f \in Funcs : \A a \in ArgsOf(f) :
        (/\ Computing(p, f, a)
         /\ Returned(f, a) /\ last.computed
         /\ pc' = [pc EXCEPT ![p] = "idle"])
            => /\ OwnKey(f, a) \in DOMAIN store'
               /\ IsEnvelope(store'[OwnKey(f, a)])
               /\ store'[OwnKey(f, a)].items["value"] \in {cur[p].ret, last.ret}
               /\ ~Stale(f, a)'

C14_ConcurrentMisses ==
    /\ []C14_EachWritesItsEnvelope
    /\ [][C14_NoSingleFlight /\ C14_OneEnvelopeThenHit]_vars

----------------------------------------------------------------------------
(* C15 *)

\* C15: a call that finds its cached value fresh returns that value without
\* invoking func and issues no set_many: the store, with the envelope and
\* every marker, is as it was, whatever the number of groups of the function.
C15_FreshCallWritesNothing ==
    \A p \in Procs :
        pc[p] = "idle" =>
            LET called == IF pc'[p] = "set_many" THEN cur'[p] ELSE last'
            IN  (/\ called.op = "cached"
                 /\ pc'[p] = "set_many" \/ last' # last
                 /\ called.f \in Funcs
                 /\ ~Stale(called.f, called.a)
                 /\ wrapper(p, called.f, called.a))
                    => /\ last' = CachedEvent(called.f, called.a, FALSE,
                                              Served(called.f, called.a), After)
                       /\ store' = store
                       /\ pc' = pc
                       /\ pending' = pending

C15_HitWritesNothing == [][C15_FreshCallWritesNothing]_vars

\* post_details, of three groups, was served from the cache while the markers
\* of its groups were in the store
C15_Witness ==
    /\ last.op = "cached"
    /\ last.f = "post_details"
    /\ ~last.computed
    /\ last.ret \in Results
    /\ Range(GroupsOf("post_details")) \subseteq DOMAIN store

----------------------------------------------------------------------------
(* C16 *)

\* the entry stored under the key of f(a) is no envelope
BadEntry(f, a) ==
    /\ OwnKey(f, a) \in DOMAIN store
    /\ ~IsEnvelope(store[OwnKey(f, a)])

\* C16: a call of f(a) that finds under its key an entry that is no envelope
\* does not fail on it: it invokes func, and when it returns the entry under
\* that key is the envelope of the value it returns.
C16_BadEntryIsMiss ==
    \A p \in Procs, f \in Funcs : \A a \in ArgsOf(f) :
        (BadEntry(f, a) /\ wrapper(p, f, a)) => Computes(p, f, a)

C16_BadEntryOverwritten ==
    \A p \in Procs, f \in Funcs : \A a \in ArgsOf(f) :
        (Computing(p, f, a) /\ BadEntry(f, a) /\ pc'[p] = "idle")
            => /\ last'.ret = cur[p].ret
               /\ IsEnvelope(store'[OwnKey(f, a)])
               /\ store'[OwnKey(f, a)].items["value"] = cur[p].ret

C16_MalformedIsMiss == [][C16_BadEntryIsMiss /\ C16_BadEntryOverwritten]_vars

----------------------------------------------------------------------------
(* C17 *)

\* caller p issues the set_many of an expire_group in this step
ExpireIssued(p) ==
    /\ pc[p] = "idle"
    /\ pc'[p] = "set_many"
    /\ cur'[p].op = "expire_group"

\* C17: expire_group issues one set_many whose keys are the names it was
\* given, each with a marker drawn for it in that call, and writes nothing
\* before it; the writes of that set_many change no entry other than those
\* under the given names and remove none.
C17_OneMarkerPerName ==
    \A p \in Procs :
        ExpireIssued(p) =>
            LET entries == cur'[p].entries
            IN  /\ store' = store
                /\ pending'[p] = entries
                /\ DOMAIN entries = cur'[p].names
                /\ \A g \in DOMAIN entries :
                      /\ entries[g].type = "str"
                      /\ entries[g].hex \in (uuid + 1)..uuid'
                      /\ \A h \in DOMAIN entries :
                            entries[h] = entries[g] => h = g

C17_OnlyNamedKeysWritten ==
    \A p \in Procs :
        ExpireWrites(p) =>
            /\ DOMAIN store \subseteq DOMAIN store'
            /\ \A k \in DOMAIN store' :
                  \/ k \in DOMAIN store /\ store'[k] = store[k]
                  \/ k \in cur[p].names /\ store'[k] = cur[p].entries[k]
            /\ \A k \in DOMAIN store :
                  IsEnvelope(store[k]) => store'[k] = store[k]

C17_ExpireTouchesOnlyNames == [][C17_OneMarkerPerName /\ C17_OnlyNamedKeysWritten]_vars

\* an expire_group of both groups has completed over a store that holds
\* envelopes
C17_Witness ==
    /\ last.op = "expire_group"
    /\ last.names = {"author1_data", "author2_data"}
    /\ last.names \subseteq DOMAIN store
    /\ \E k \in DOMAIN store : IsEnvelope(store[k])

----------------------------------------------------------------------------
(* C18 *)

\* C18: every set_many in flight, that of a wrapper call as that of an
\* expire_group, was issued with timeout=VERY_LONG_TIME, so that a marker is
\* given no shorter a life than the envelopes that record it.
C18_EveryWriteUnbounded ==
    \A p \in Procs :
        pc[p] = "set_many" => cur[p].timeout = VERY_LONG_TIME

----------------------------------------------------------------------------
(* C19 *)

\* caller p has invoked func and issues the set_many of its call in this step
MissIssued(p) ==
    /\ pc[p] = "idle"
    /\ pc'[p] = "set_many"
    /\ cur'[p].op = "cached"

\* the envelope stored for f(a) recorded no marker for g, and a marker is
\* stored under g
UnrecordedMarker(f, a, g) ==
    /\ OwnKey(f, a) \in DOMAIN store
    /\ IsEnvelope(store[OwnKey(f, a)])
    /\ g \notin DOMAIN store[OwnKey(f, a)].items
    /\ g \in DOMAIN store

\* C19: the envelope a call builds records no marker for a group of the
\* function that had no marker in the store when the call read it; and an
\* envelope that records no marker for a group of its function is judged
\* stale as soon as a marker is stored under that group.
C19_AbsentNotRecorded ==
    \A p \in Procs :
        MissIssued(p) =>
            \A g \in Range(GroupsOf(cur'[p].f)) \ DOMAIN store :
                \A k \in DOMAIN cur'[p].entries :
                    IsEnvelope(cur'[p].entries[k])
                        => g \notin DOMAIN cur'[p].entries[k].items

C19_StaleOncePresent ==
    \A f \in Funcs : \A a \in ArgsOf(f) :
        \A g \in Range(GroupsOf(f)) :
            UnrecordedMarker(f, a, g) => Stale(f, a)

----------------------------------------------------------------------------
(* C20 *)

\* caller p's wrapper call writes some entries of its set_many in this step
MissWrites(p) ==
    /\ pc[p] = "set_many"
    /\ cur[p].op = "cached"
    /\ pending'[p] # pending[p]

\* C20: the set_many a call issues after invoking func carries, for every
\* group of the function that has a marker in the store, that same marker
\* under the group's name; and with one caller, its writes leave every other
\* function whose cached value was fresh fresh, with the same value.
C20_SameMarkerRewritten ==
    \A p \in Procs :
        MissIssued(p) =>
            \A g \in Range(GroupsOf(cur'[p].f)) \cap DOMAIN store :
                /\ g \in DOMAIN cur'[p].entries
                /\ cur'[p].entries[g] = store[g]

C20_SiblingsStayFresh ==
    \A p \in Procs :
        MissWrites(p) =>
            \A f \in Funcs \ {cur[p].f} : \A a \in ArgsOf(f) :
                ~Stale(f, a)
                    => /\ ~Stale(f, a)'
                       /\ Served(f, a)' = Served(f, a)

C20_MissKeepsSiblings == [][C20_SameMarkerRewritten /\ C20_SiblingsStayFresh]_vars

\* post_details has just been recomputed and author_details, cached in the
\* same group under a stored marker, is still fresh
C20_Witness ==
    /\ last.op = "cached"
    /\ last.f = "post_details"
    /\ last.computed
    /\ last.ret \in Results
    /\ "author1_data" \in DOMAIN store
    /\ ~Stale("author_details", <<1>>)

====
